---- MODULE Spec2Model ----
(***************************************************************************)
(* Model of the flexvolume driver's control channel client                 *)
(* (package cmd: getRPCClient, log, redirectStdout).                       *)
(*                                                                         *)
(* One CLI process: it resolves its own executable, dials the agent's unix *)
(* socket next to it, then runs operations inside redirectStdout, which    *)
(* swaps the process-global os.Stdout/os.Stderr for the write end of a     *)
(* pipe while fn runs, drains the pipe and forwards the text to the agent  *)
(* with the FlexvolumeController.Log RPC.                                  *)
(***************************************************************************)
EXTENDS Integers, Sequences, FiniteSets, TLC

(* ------------------------------ bounds --------------------------------- *)
\* capacity of the kernel pipe buffer, in bytes
PipeCap == 2
\* number of redirectStdout invocations a process may make
NumInv == 1
\* how many bytes beyond the pipe capacity fn may try to write
MaxOver == 1

MaxWrite == PipeCap + MaxOver
Invs == 1..NumInv
Bytes == {"a", "b"}
Streams == {"stdout", "stderr"}
\* the errors fn may return (nil is "nil")
FnErrs == {"e1", "e2"}
Nil == "nil"

(* ------------------------------ handles -------------------------------- *)
\* *os.File values: the two real streams, the write end of invocation i's
\* pipe, and the nil file os.Pipe yields when it fails
RealStdout == [k |-> "real", n |-> 1]
RealStderr == [k |-> "real", n |-> 2]
PipeW(i) == [k |-> "pipe", n |-> i]
NilFile == [k |-> "nil", n |-> 0]
NoPending == [b |-> "-", h |-> NilFile]
NoRequest == [from |-> 0, Message |-> <<>>, IsError |-> FALSE]

(* ------------------------------- paths --------------------------------- *)
\* a path is the sequence of its components below the root
ExePaths == {<<"usr", "libexec", "rook">>, <<"opt", "rook">>}
WorkDirs == {<<"tmp">>, <<"usr", "libexec">>}
UnixSocketName == ".rook.sock"
\* path.Dir: everything but the last component
Dir(p) == SubSeq(p, 1, Len(p) - 1)
\* path.Join(dir, name) for a clean dir and a single-component name
Join(d, name) == Append(d, name)

VARIABLES
    \* environment of the process
    exeOk,        \* does os.Executable() succeed
    exePath,      \* what it returns when it does
    cwd,          \* working directory of the invocation
    agentDir,     \* directory where the agent bound its socket
    agentSock,    \* "listening", "stale" (file exists, nobody accepts), "absent"
    \* getRPCClient
    mainpc,       \* "start", "connected", "noclient"
    client,       \* "nil" or "client"
    gerr,         \* error returned by getRPCClient
    dialed,       \* sequence of addresses passed to net.Dial
    openConns,    \* connections currently open in this process
    \* the connection and the agent
    peer,         \* "up" or "down"
    inflight,     \* the Log request the agent has not answered yet
    agentLog,     \* LogMessages the agent has received
    \* process-global streams
    os_Stdout,
    os_Stderr,
    realOut,      \* bytes that reached the real standard output
    realErr,      \* bytes that reached the real standard error
    \* redirectStdout frames
    pc,
    oldStdout,
    oldStderr,
    w,            \* write end returned by os.Pipe
    wOpen,        \* is the write end open
    pipeBuf,      \* bytes sitting in the kernel pipe
    buf,          \* bytes.Buffer filled by io.Copy
    err,          \* value returned by fn
    ret,          \* value returned by redirectStdout
    panicking,    \* fn panicked and the panic is propagating
    rpcRes,       \* result of client.Call: "none", "ok", "remoteErr", "ErrShutdown", "EOF"
    logCalls,     \* number of client.Call("FlexvolumeController.Log") made
    logged,       \* message passed to the last log call
    \* fn
    pending,      \* the Write call fn is inside of
    nWrites,      \* Write calls fn has made
    fnWritten,    \* bytes fn's Write calls have accepted, in order
    resultOut     \* has the caller written its structured result

\* the operator's managers (packages rgw, mds, api) and the cluster they
\* write to
VARIABLES
    kop,                \* the call in progress: "none", "rgw", "mds", "api" (Start), "role" (makeClusterRole)
    kpc,                \* the API call it is about to make
    kobjs,              \* objects in the cluster, as <<kind, name>>
    secretKeys,         \* keys of StringData of each manager's secret
    roleRules,          \* rules of the stored rook-api cluster role
    bindingRef,         \* RoleRef of the stored rook-api role binding
    clusterAccessRules, \* the package variable of package api
    keyringCalls,       \* calls of CreateKeyring made by each manager
    kret,               \* what the last finished call of each kind returned
    kruns,              \* calls finished so far
    ktrace,             \* the call in progress (or last finished) and its API calls, with outcomes
    mcrRet,             \* what makeClusterRole returned in the call in progress
    mcrRules,           \* clusterAccessRules when makeClusterRole returned nil
    nOther              \* objects created by other actors

\* the integration test's wait for a healthy cluster
\* (checkIfRookClusterIsHealthy)
VARIABLES
    hpc,            \* "idle", "loop", "check", "sleep", "require", "returned", "failed"
    retryCount,
    herr,           \* err: result of the last IsClusterHealthy
    hlog,           \* results of the health checks made, in order
    hfail,          \* the error require.Nil failed the test with
    clusterHealth   \* state of the cluster the checks look at

healthVars == <<hpc, retryCount, herr, hlog, hfail, clusterHealth>>

kubeVars == <<kop, kpc, kobjs, secretKeys, roleRules, bindingRef, clusterAccessRules,
              keyringCalls, kret, kruns, ktrace, mcrRet, mcrRules, nOther>>

envVars == <<exeOk, exePath, cwd, agentDir, agentSock>>
connVars == <<mainpc, client, gerr, dialed, openConns>>
agentVars == <<peer, inflight, agentLog>>
streamVars == <<os_Stdout, os_Stderr, realOut, realErr>>
frameVars == <<pc, oldStdout, oldStderr, w, wOpen, pipeBuf, buf, err, ret, panicking>>
rpcVars == <<rpcRes, logCalls, logged>>
fnVars == <<pending, nWrites, fnWritten, resultOut>>
cliVars == <<envVars, connVars, agentVars, streamVars, frameVars, rpcVars, fnVars>>
vars == <<cliVars, kubeVars, healthVars>>

\* mutant: the socket is looked up relative to the working directory
SocketFile_Cwd(ex) == Join(cwd, UnixSocketName)

\* the address getRPCClient dials
SocketFile(ex) == Join(Dir(ex), UnixSocketName)

NoErr == [kind |-> "none", cause |-> "none", addr |-> <<>>]

\* no invocation of redirectStdout in S has started
FrameInit(S) ==
    /\ pc = [i \in S |-> "idle"]
    /\ oldStdout = [i \in S |-> NilFile]
    /\ oldStderr = [i \in S |-> NilFile]
    /\ w = [i \in S |-> NilFile]
    /\ wOpen = [i \in S |-> FALSE]
    /\ pipeBuf = [i \in S |-> <<>>]
    /\ buf = [i \in S |-> <<>>]
    /\ err = [i \in S |-> Nil]
    /\ ret = [i \in S |-> Nil]
    /\ panicking = [i \in S |-> FALSE]
    /\ rpcRes = [i \in S |-> "none"]
    /\ logCalls = [i \in S |-> 0]
    /\ logged = [i \in S |-> NoRequest]
    /\ pending = [i \in S |-> NoPending]
    /\ nWrites = [i \in S |-> 0]
    /\ fnWritten = [i \in S |-> <<>>]
    /\ resultOut = [i \in S |-> FALSE]

\* the flexvolume driver's process at its start
CliInit ==
    /\ exeOk \in BOOLEAN
    /\ exePath \in ExePaths
    /\ cwd \in WorkDirs
    /\ agentDir \in {Dir(p) : p \in ExePaths}
    /\ agentSock \in {"listening", "stale", "absent"}
    /\ mainpc = "start"
    /\ client = "nil"
    /\ gerr = NoErr
    /\ dialed = <<>>
    /\ openConns = 0
    /\ peer = "down"
    /\ inflight = NoRequest
    /\ agentLog = <<>>
    /\ os_Stdout = RealStdout
    /\ os_Stderr = RealStderr
    /\ realOut = <<>>
    /\ realErr = <<>>
    /\ FrameInit(Invs)

(* ----------------------------- the cluster ----------------------------- *)
RgwApp == "rook-ceph-rgw"
MdsApp == "rook-ceph-mds"
ApiName == "rook-api"
keyringName == "keyring"
\* the object name each manager uses
AppOf(c) == IF c = "rgw" THEN RgwApp ELSE IF c = "mds" THEN MdsApp ELSE ApiName
Managers == {"rgw", "mds", "api"}
Calls == Managers \cup {"role"}
\* the rule sets clusterAccessRules takes: the four rules of the package and
\* the single rule an upgrade replaces them by
RuleSets == {"rules4", "rules1"}
RookApiRoleRef == [Name |-> ApiName, Kind |-> "ClusterRole", APIGroup |-> "rbac.authorization.k8s.io"]
NoRoleRef == [Name |-> "", Kind |-> "", APIGroup |-> ""]
AllObjs ==
    {<<"secret", RgwApp>>, <<"service", RgwApp>>, <<"deployment", RgwApp>>,
     <<"secret", MdsApp>>, <<"deployment", MdsApp>>,
     <<"service", ApiName>>, <<"serviceaccount", ApiName>>, <<"clusterrole", ApiName>>,
     <<"clusterrolebinding", ApiName>>, <<"deployment", ApiName>>}

\* an empty cluster and no call in progress
KubeInit ==
    /\ kop = "none"
    /\ kpc = "idle"
    /\ kobjs = {}
    /\ secretKeys = [c \in {"rgw", "mds"} |-> {}]
    /\ roleRules = "none"
    /\ bindingRef = NoRoleRef
    /\ clusterAccessRules = "rules4"
    /\ keyringCalls = [c \in {"rgw", "mds"} |-> 0]
    /\ kret = [c \in Calls |-> "none"]
    /\ kruns = 0
    /\ ktrace = <<>>
    /\ mcrRet = "none"
    /\ mcrRules = "none"
    /\ nOther = 0

\* states of the cluster as the health check sees it, and the error it
\* reports for each unhealthy one
HealthStates == {"ok", "degraded", "unreachable"}

\* checkIfRookClusterIsHealthy has not been called
HealthIdle ==
    /\ hpc = "idle"
    /\ retryCount = 0
    /\ herr = Nil
    /\ hlog = <<>>
    /\ hfail = Nil
    /\ clusterHealth = "unreachable"

Init == CliInit /\ KubeInit /\ HealthIdle

(* ---------------------------- getRPCClient ----------------------------- *)
\* net.Dial("unix", addr): the socket file must exist and be accepted on
DialResult(addr) ==
    IF addr # Join(agentDir, UnixSocketName) \/ agentSock = "absent" THEN "ENOENT"
    ELSE IF agentSock = "stale" THEN "ECONNREFUSED"
    ELSE "ok"

\* mutant: a failed dial is retried once before giving up
GetRPCClient_Retry ==
    /\ mainpc = "start"
    /\ IF ~exeOk
       THEN /\ gerr' = [kind |-> "executable", cause |-> "os.Executable", addr |-> <<>>]
            /\ mainpc' = "noclient"
            /\ UNCHANGED <<client, dialed, openConns, peer>>
       ELSE LET unixSocketFile == SocketFile(exePath)
                res == DialResult(unixSocketFile)
            IN  /\ dialed' = IF res # "ok" THEN dialed \o <<unixSocketFile, unixSocketFile>>
                                           ELSE Append(dialed, unixSocketFile)
                /\ IF res # "ok"
                   THEN /\ gerr' = [kind |-> "connect", cause |-> res, addr |-> unixSocketFile]
                        /\ mainpc' = "noclient"
                        /\ UNCHANGED <<client, openConns, peer>>
                   ELSE /\ gerr' = NoErr
                        /\ client' = "client"
                        /\ openConns' = openConns + 1
                        /\ peer' = "up"
                        /\ mainpc' = "connected"
    /\ UNCHANGED <<healthVars, kubeVars, envVars, inflight, agentLog, streamVars, frameVars, rpcVars, fnVars>>

\* mutant: a failure of os.Executable is not checked and the dial goes ahead
GetRPCClient_DialAnyway ==
    /\ mainpc = "start"
    /\ LET unixSocketFile == SocketFile(exePath)
           res == DialResult(unixSocketFile)
       IN  /\ dialed' = Append(dialed, unixSocketFile)
           /\ IF res # "ok" \/ ~exeOk
              THEN /\ gerr' = IF exeOk THEN [kind |-> "connect", cause |-> res, addr |-> unixSocketFile]
                                       ELSE [kind |-> "executable", cause |-> "os.Executable", addr |-> <<>>]
                   /\ mainpc' = "noclient"
                   /\ UNCHANGED <<client, openConns, peer>>
              ELSE /\ gerr' = NoErr
                   /\ client' = "client"
                   /\ openConns' = openConns + 1
                   /\ peer' = "up"
                   /\ mainpc' = "connected"
    /\ UNCHANGED <<healthVars, kubeVars, envVars, inflight, agentLog, streamVars, frameVars, rpcVars, fnVars>>

GetRPCClient ==
    /\ mainpc = "start"
    /\ IF ~exeOk
       THEN /\ gerr' = [kind |-> "executable", cause |-> "os.Executable", addr |-> <<>>]
            /\ mainpc' = "noclient"
            /\ UNCHANGED <<client, dialed, openConns, peer>>
       ELSE LET unixSocketFile == SocketFile(exePath)
                res == DialResult(unixSocketFile)
            IN  /\ dialed' = Append(dialed, unixSocketFile)
                /\ IF res # "ok"
                   THEN /\ gerr' = [kind |-> "connect", cause |-> res, addr |-> unixSocketFile]
                        /\ mainpc' = "noclient"
                        /\ UNCHANGED <<client, openConns, peer>>
                   ELSE /\ gerr' = NoErr
                        /\ client' = "client"
                        /\ openConns' = openConns + 1
                        /\ peer' = "up"
                        /\ mainpc' = "connected"
    /\ UNCHANGED <<healthVars, kubeVars, envVars, inflight, agentLog, streamVars, frameVars, rpcVars, fnVars>>

(* ---------------------------- redirectStdout --------------------------- *)
\* Only one capture scope is active at a time, and a process whose fn
\* panicked does not start another one.
MayEnter(i) ==
    /\ mainpc = "connected"
    /\ pc[i] = "idle"
    /\ \A j \in Invs : j < i => pc[j] = "returned" /\ resultOut[j]
    /\ \A j \in Invs : j > i => pc[j] = "idle"

\* lines 588-599: back up the streams, make the pipe, substitute, register
\* the deferred restore, call fn.  os.Pipe's error is ignored: when it fails
\* both ends are nil files.
Substitute(i, pipeOk) ==
    /\ mainpc = "connected"
    /\ pc[i] = "idle"
    /\ oldStdout' = [oldStdout EXCEPT ![i] = os_Stdout]
    /\ oldStderr' = [oldStderr EXCEPT ![i] = os_Stderr]
    /\ w' = [w EXCEPT ![i] = IF pipeOk THEN PipeW(i) ELSE NilFile]
    /\ wOpen' = [wOpen EXCEPT ![i] = pipeOk]
    /\ os_Stdout' = w'[i]
    /\ os_Stderr' = w'[i]
    /\ pc' = [pc EXCEPT ![i] = "fn"]
    /\ UNCHANGED <<healthVars, kubeVars, envVars, connVars, agentVars, realOut, realErr, pipeBuf, buf, err, ret,
                   panicking, rpcVars, fnVars>>

(* --------------------------------- fn ---------------------------------- *)
\* (*os.File).Write on handle h
WriteFails(h) == h.k = "nil" \/ (h.k = "pipe" /\ ~wOpen[h.n])
WriteBlocks(h) == h.k = "pipe" /\ wOpen[h.n] /\ Len(pipeBuf[h.n]) >= PipeCap

\* fn calls Write(b) on os.Stdout or os.Stderr
FnBeginWrite(i, b, s) ==
    /\ pc[i] = "fn"
    /\ pending[i] = NoPending
    /\ nWrites[i] < MaxWrite
    /\ pending' = [pending EXCEPT ![i] = [b |-> b, h |-> IF s = "stdout" THEN os_Stdout ELSE os_Stderr]]
    /\ nWrites' = [nWrites EXCEPT ![i] = @ + 1]
    /\ UNCHANGED <<healthVars, kubeVars, envVars, connVars, agentVars, streamVars, frameVars, rpcVars, fnWritten, resultOut>>

\* the Write call completes: it blocks while the pipe is full
FnCompleteWrite(i) ==
    /\ pc[i] = "fn"
    /\ pending[i] # NoPending
    /\ LET h == pending[i].h
           b == pending[i].b
       IN  /\ ~WriteBlocks(h)
           /\ pipeBuf' = IF h.k = "pipe" /\ ~WriteFails(h) THEN [pipeBuf EXCEPT ![h.n] = Append(@, b)] ELSE pipeBuf
           /\ realOut' = IF h = RealStdout THEN Append(realOut, b) ELSE realOut
           /\ realErr' = IF h = RealStderr THEN Append(realErr, b) ELSE realErr
           /\ fnWritten' = IF WriteFails(h) THEN fnWritten ELSE [fnWritten EXCEPT ![i] = Append(@, b)]
    /\ pending' = [pending EXCEPT ![i] = NoPending]
    /\ UNCHANGED <<healthVars, kubeVars, envVars, connVars, agentVars, os_Stdout, os_Stderr, pc, oldStdout, oldStderr,
                   w, wOpen, buf, err, ret, panicking, rpcVars, nWrites, resultOut>>

\* mutant: the streams are restored as soon as fn returns, before the close
FnReturn_RestoreFirst(i, e) ==
    /\ pc[i] = "fn"
    /\ pending[i] = NoPending
    /\ err' = [err EXCEPT ![i] = e]
    /\ os_Stdout' = oldStdout[i]
    /\ os_Stderr' = oldStderr[i]
    /\ pc' = [pc EXCEPT ![i] = "close"]
    /\ UNCHANGED <<healthVars, kubeVars, envVars, connVars, agentVars, realOut, realErr, oldStdout, oldStderr, w, wOpen,
                   pipeBuf, buf, ret, panicking, rpcVars, fnVars>>

\* line 601: fn returns e (nil or an error)
FnReturn(i, e) ==
    /\ pc[i] = "fn"
    /\ pending[i] = NoPending
    /\ err' = [err EXCEPT ![i] = e]
    /\ pc' = [pc EXCEPT ![i] = "close"]
    /\ UNCHANGED <<healthVars, kubeVars, envVars, connVars, agentVars, streamVars, oldStdout, oldStderr, w, wOpen,
                   pipeBuf, buf, ret, panicking, rpcVars, fnVars>>

\* mutant: a panic of fn is caught, and the close, drain and log still run
FnPanic_Drains(i) ==
    /\ pc[i] = "fn"
    /\ pending[i] = NoPending
    /\ panicking' = [panicking EXCEPT ![i] = TRUE]
    /\ pc' = [pc EXCEPT ![i] = "close"]
    /\ UNCHANGED <<healthVars, kubeVars, envVars, connVars, agentVars, streamVars, oldStdout, oldStderr, w, wOpen,
                   pipeBuf, buf, err, ret, rpcVars, fnVars>>

\* line 601: fn panics; the rest of the body is skipped and only the
\* deferred function runs while the panic propagates
FnPanic(i) ==
    /\ pc[i] = "fn"
    /\ pending[i] = NoPending
    /\ panicking' = [panicking EXCEPT ![i] = TRUE]
    /\ pc' = [pc EXCEPT ![i] = "defer"]
    /\ UNCHANGED <<healthVars, kubeVars, envVars, connVars, agentVars, streamVars, oldStdout, oldStderr, w, wOpen,
                   pipeBuf, buf, err, ret, rpcVars, fnVars>>

\* line 602: w.Close()
CloseW(i) ==
    /\ pc[i] = "close"
    /\ wOpen' = [wOpen EXCEPT ![i] = FALSE]
    /\ pc' = [pc EXCEPT ![i] = "copy"]
    /\ UNCHANGED <<healthVars, kubeVars, envVars, connVars, agentVars, streamVars, oldStdout, oldStderr, w,
                   pipeBuf, buf, err, ret, panicking, rpcVars, fnVars>>

\* mutant: the copy stops one byte short of EOF
Copied_DropLast(i) ==
    IF pipeBuf[i] = <<>> THEN buf[i] ELSE buf[i] \o SubSeq(pipeBuf[i], 1, Len(pipeBuf[i]) - 1)

\* io.Copy(&buf, r): everything in the pipe, in order, up to EOF
Copied(i) == buf[i] \o pipeBuf[i]

\* mutant: the captured text is dropped without a log call
Drain_SkipLog(i) ==
    /\ pc[i] = "copy"
    /\ w[i] = NilFile \/ ~wOpen[i]
    /\ buf' = [buf EXCEPT ![i] = Copied(i)]
    /\ pipeBuf' = [pipeBuf EXCEPT ![i] = <<>>]
    /\ pc' = [pc EXCEPT ![i] = "return"]
    /\ UNCHANGED <<healthVars, kubeVars, envVars, connVars, agentVars, streamVars, oldStdout, oldStderr, w, wOpen,
                   err, ret, panicking, rpcVars, fnVars>>

\* lines 604-605: io.Copy reads until EOF, which the pipe reports once it is
\* empty and its write end is closed (a nil read end fails at once)
Drain(i) ==
    /\ pc[i] = "copy"
    /\ w[i] = NilFile \/ ~wOpen[i]
    /\ buf' = [buf EXCEPT ![i] = Copied(i)]
    /\ pipeBuf' = [pipeBuf EXCEPT ![i] = <<>>]
    /\ pc' = [pc EXCEPT ![i] = "log"]
    /\ UNCHANGED <<healthVars, kubeVars, envVars, connVars, agentVars, streamVars, oldStdout, oldStderr, w, wOpen,
                   err, ret, panicking, rpcVars, fnVars>>

(* --------------------------------- log --------------------------------- *)
\* lines 578-581: the LogMessage built from the captured text
LogMessage(i, message, isError) == [from |-> i, Message |-> message, IsError |-> isError]

\* mutant: the severity follows fn's result
LogCall_ErrSeverity(i) ==
    /\ pc[i] = "log"
    /\ logCalls' = [logCalls EXCEPT ![i] = @ + 1]
    /\ logged' = [logged EXCEPT ![i] = LogMessage(i, buf[i], err[i] # Nil)]
    /\ IF peer = "up"
       THEN /\ inflight' = logged'[i]
            /\ pc' = [pc EXCEPT ![i] = "wait"]
            /\ UNCHANGED rpcRes
       ELSE /\ rpcRes' = [rpcRes EXCEPT ![i] = "ErrShutdown"]
            /\ pc' = [pc EXCEPT ![i] = "return"]
            /\ UNCHANGED inflight
    /\ UNCHANGED <<healthVars, kubeVars, envVars, connVars, peer, agentLog, streamVars, oldStdout, oldStderr, w, wOpen,
                   pipeBuf, buf, err, ret, panicking, fnVars>>

\* mutant: nothing is forwarded when nothing was captured
LogCall_SkipEmpty(i) ==
    /\ pc[i] = "log"
    /\ IF buf[i] = <<>>
       THEN /\ pc' = [pc EXCEPT ![i] = "return"]
            /\ UNCHANGED <<rpcRes, logCalls, logged, inflight>>
       ELSE /\ logCalls' = [logCalls EXCEPT ![i] = @ + 1]
            /\ logged' = [logged EXCEPT ![i] = LogMessage(i, buf[i], FALSE)]
            /\ IF peer = "up"
               THEN /\ inflight' = logged'[i]
                    /\ pc' = [pc EXCEPT ![i] = "wait"]
                    /\ UNCHANGED rpcRes
               ELSE /\ rpcRes' = [rpcRes EXCEPT ![i] = "ErrShutdown"]
                    /\ pc' = [pc EXCEPT ![i] = "return"]
                    /\ UNCHANGED inflight
    /\ UNCHANGED <<healthVars, kubeVars, envVars, connVars, peer, agentLog, streamVars, oldStdout, oldStderr, w, wOpen,
                   pipeBuf, buf, err, ret, panicking, fnVars>>

\* line 606 / 577-582: log(client, buf.String(), false) calls client.Call,
\* which sends the request and blocks; on a connection that is already shut
\* down it returns ErrShutdown at once
LogCall(i) ==
    /\ pc[i] = "log"
    /\ logCalls' = [logCalls EXCEPT ![i] = @ + 1]
    /\ logged' = [logged EXCEPT ![i] = LogMessage(i, buf[i], FALSE)]
    /\ IF peer = "up"
       THEN /\ inflight' = logged'[i]
            /\ pc' = [pc EXCEPT ![i] = "wait"]
            /\ UNCHANGED rpcRes
       ELSE /\ rpcRes' = [rpcRes EXCEPT ![i] = "ErrShutdown"]
            /\ pc' = [pc EXCEPT ![i] = "return"]
            /\ UNCHANGED inflight
    /\ UNCHANGED <<healthVars, kubeVars, envVars, connVars, peer, agentLog, streamVars, oldStdout, oldStderr, w, wOpen,
                   pipeBuf, buf, err, ret, panicking, fnVars>>

\* the agent handles the request and answers (nil or an error)
AgentReply(res) ==
    /\ inflight # NoRequest
    /\ peer = "up"
    /\ agentLog' = Append(agentLog, [Message |-> inflight.Message, IsError |-> inflight.IsError])
    /\ rpcRes' = [rpcRes EXCEPT ![inflight.from] = res]
    /\ inflight' = NoRequest
    /\ UNCHANGED <<healthVars, kubeVars, envVars, connVars, peer, streamVars, frameVars, logCalls, logged, fnVars>>

\* the agent goes away: a call in flight fails with an unexpected EOF
PeerDisconnect ==
    /\ peer = "up"
    /\ peer' = "down"
    /\ IF inflight # NoRequest
       THEN /\ rpcRes' = [rpcRes EXCEPT ![inflight.from] = "EOF"]
            /\ inflight' = NoRequest
       ELSE UNCHANGED <<rpcRes, inflight>>
    /\ UNCHANGED <<healthVars, kubeVars, envVars, connVars, agentLog, streamVars, frameVars, logCalls, logged, fnVars>>

\* mutant: the call is given up after a timeout, answered or not
LogReturn_NoWait(i) ==
    /\ pc[i] = "wait"
    /\ pc' = [pc EXCEPT ![i] = "return"]
    /\ UNCHANGED <<healthVars, kubeVars, envVars, connVars, agentVars, streamVars, oldStdout, oldStderr, w, wOpen,
                   pipeBuf, buf, err, ret, panicking, rpcVars, fnVars>>

\* line 582: client.Call returns; its result is dropped, log returns
LogReturn(i) ==
    /\ pc[i] = "wait"
    /\ rpcRes[i] # "none"
    /\ pc' = [pc EXCEPT ![i] = "return"]
    /\ UNCHANGED <<healthVars, kubeVars, envVars, connVars, agentVars, streamVars, oldStdout, oldStderr, w, wOpen,
                   pipeBuf, buf, err, ret, panicking, rpcVars, fnVars>>

\* mutant: fn's error is lost
ReturnValue_Nil(i) == Nil

\* mutant: a failed log call replaces fn's result
ReturnValue_LogErr(i) == IF rpcRes[i] = "ok" THEN err[i] ELSE rpcRes[i]

\* line 607: the value of the return statement
ReturnValue(i) == err[i]

\* line 607: return err
Return(i) ==
    /\ pc[i] = "return"
    /\ ret' = [ret EXCEPT ![i] = ReturnValue(i)]
    /\ pc' = [pc EXCEPT ![i] = "defer"]
    /\ UNCHANGED <<healthVars, kubeVars, envVars, connVars, agentVars, streamVars, oldStdout, oldStderr, w, wOpen,
                   pipeBuf, buf, err, panicking, rpcVars, fnVars>>

\* mutant: the handles the process started with are put back, whatever the
\* backup holds
Restored_Original(i) == <<RealStdout, RealStderr>>

\* mutant: only os.Stdout is restored
Restored_StdoutOnly(i) == <<oldStdout[i], os_Stderr>>

\* lines 596-599: what the deferred function stores in os.Stdout, os.Stderr
Restored(i) == <<oldStdout[i], oldStderr[i]>>

\* lines 596-599: the deferred function runs, then control leaves
\* redirectStdout, by return or with the panic still propagating
DeferRestore(i) ==
    /\ pc[i] = "defer"
    /\ os_Stdout' = Restored(i)[1]
    /\ os_Stderr' = Restored(i)[2]
    /\ pc' = [pc EXCEPT ![i] = IF panicking[i] THEN "panicked" ELSE "returned"]
    /\ UNCHANGED <<healthVars, kubeVars, envVars, connVars, agentVars, realOut, realErr, oldStdout, oldStderr, w, wOpen,
                   pipeBuf, buf, err, ret, panicking, rpcVars, fnVars>>

\* the caller of the scope writes the operation's structured result to
\* os.Stdout once redirectStdout has returned
CallerWriteResult(i) ==
    /\ pc[i] = "returned"
    /\ ~resultOut[i]
    /\ ~WriteBlocks(os_Stdout)
    /\ resultOut' = [resultOut EXCEPT ![i] = TRUE]
    /\ realOut' = IF os_Stdout = RealStdout THEN Append(realOut, "R") ELSE realOut
    /\ realErr' = IF os_Stdout = RealStderr THEN Append(realErr, "R") ELSE realErr
    /\ pipeBuf' = IF os_Stdout.k = "pipe" /\ ~WriteFails(os_Stdout)
                  THEN [pipeBuf EXCEPT ![os_Stdout.n] = Append(@, "R")] ELSE pipeBuf
    /\ UNCHANGED <<healthVars, kubeVars, envVars, connVars, agentVars, os_Stdout, os_Stderr, pc, oldStdout, oldStderr,
                   w, wOpen, buf, err, ret, panicking, rpcVars, pending, nWrites, fnWritten>>

Next ==
    \/ GetRPCClient
    \/ \E i \in Invs, pipeOk \in BOOLEAN : MayEnter(i) /\ Substitute(i, pipeOk)
    \/ \E i \in Invs, b \in Bytes, s \in Streams : FnBeginWrite(i, b, s)
    \/ \E i \in Invs : FnCompleteWrite(i)
    \/ \E i \in Invs, e \in FnErrs \cup {Nil} : FnReturn(i, e)
    \/ \E i \in Invs : FnPanic(i)
    \/ \E i \in Invs : CloseW(i)
    \/ \E i \in Invs : Drain(i)
    \/ \E i \in Invs : LogCall(i)
    \/ \E res \in {"ok", "remoteErr"} : AgentReply(res)
    \/ PeerDisconnect
    \/ \E i \in Invs : LogReturn(i)
    \/ \E i \in Invs : Return(i)
    \/ \E i \in Invs : DeferRestore(i)
    \/ \E i \in Invs : CallerWriteResult(i)

\* what the scheduling guarantees: the process keeps running its own
\* straight-line code once the call has come back
ProcessStep == \E i \in Invs : LogReturn(i) \/ Return(i) \/ DeferRestore(i)
\* an agent that eventually answers the call or drops the connection
AgentStep == (\E res \in {"ok", "remoteErr"} : AgentReply(res)) \/ PeerDisconnect

Spec == Init /\ [][Next]_vars

\* the process against an agent that eventually responds or disconnects
\* (one installation: the agent listens next to the executable)
FairInit ==
    /\ Init
    /\ exeOk
    /\ exePath = <<"opt", "rook">>
    /\ cwd = <<"tmp">>
    /\ agentDir = Dir(exePath)
    /\ agentSock = "listening"

FairSpec == FairInit /\ [][Next]_vars /\ WF_vars(ProcessStep) /\ WF_vars(AgentStep)

(* ------------------- redirectStdout without discipline ----------------- *)
\* two callers, A (1) and B (2), in one process, each invoking
\* redirectStdout once and not waiting for the other
Scopes == {1, 2}

OverlapInit ==
    /\ KubeInit
    /\ HealthIdle
    /\ exeOk = TRUE
    /\ exePath = <<"opt", "rook">>
    /\ cwd = <<"tmp">>
    /\ agentDir = Dir(exePath)
    /\ agentSock = "listening"
    /\ mainpc = "start"
    /\ client = "nil"
    /\ gerr = NoErr
    /\ dialed = <<>>
    /\ openConns = 0
    /\ peer = "down"
    /\ inflight = NoRequest
    /\ agentLog = <<>>
    /\ os_Stdout = RealStdout
    /\ os_Stderr = RealStderr
    /\ realOut = <<>>
    /\ realErr = <<>>
    /\ FrameInit(Scopes)

\* redirectStdout as the code has it, entered whenever a caller wants; the
\* fn of these callers writes nothing, and the agent is sent one request at
\* a time
OverlapNext ==
    \/ GetRPCClient
    \/ \E i \in Scopes, pipeOk \in BOOLEAN : Substitute(i, pipeOk)
    \/ \E i \in Scopes, e \in FnErrs \cup {Nil} : FnReturn(i, e)
    \/ \E i \in Scopes : CloseW(i)
    \/ \E i \in Scopes : Drain(i)
    \/ \E i \in Scopes : inflight = NoRequest /\ LogCall(i)
    \/ \E res \in {"ok", "remoteErr"} : AgentReply(res)
    \/ PeerDisconnect
    \/ \E i \in Scopes : LogReturn(i)
    \/ \E i \in Scopes : Return(i)
    \/ \E i \in Scopes : DeferRestore(i)

OverlapSpec == OverlapInit /\ [][OverlapNext]_vars

(* ------------------- rgw, mds and api managers: Start ------------------ *)
\* calls (Start or makeClusterRole) one run of the operator makes
MaxStarts == 2
\* objects other actors create in the cluster meanwhile
MaxOther == 1

\* results of the clientset: Get and Create against the cluster; fault is
\* any error other than NotFound / AlreadyExists
GetOutcome(obj, fault) == IF fault THEN "fault" ELSE IF obj \in kobjs THEN "ok" ELSE "notfound"
CreateOutcome(obj, fault) == IF fault THEN "fault" ELSE IF obj \in kobjs THEN "exists" ELSE "ok"
UpdateOutcome(obj, fault) == IF fault THEN "fault" ELSE IF obj \in kobjs THEN "ok" ELSE "notfound"

\* the first API call of each call
FirstStep(c) == IF c \in {"rgw", "mds"} THEN "secret_get" ELSE IF c = "api" THEN "service" ELSE "sa"
\* rgw starts its service after the keyring, mds goes on to its deployment
AfterKeyring(c) == IF c = "rgw" THEN "service" ELSE "deploy"
\* rgw creates its deployment after the service, api sets up RBAC first
AfterService(c) == IF c = "rgw" THEN "deploy" ELSE "sa"

\* the call in progress returns res
Finish(res) ==
    /\ kret' = [kret EXCEPT ![kop] = res]
    /\ kop' = "none"
    /\ kpc' = "idle"
    /\ kruns' = kruns + 1

\* Start (or makeClusterRole) is called
StartBegin(c) ==
    /\ kop = "none"
    /\ kruns < MaxStarts
    /\ kop' = c
    /\ kpc' = FirstStep(c)
    /\ ktrace' = << <<"call", c>> >>
    /\ mcrRet' = IF c \in {"api", "role"} THEN "none" ELSE mcrRet
    /\ UNCHANGED <<healthVars, cliVars, kobjs, secretKeys, roleRules, bindingRef, clusterAccessRules,
                   keyringCalls, kret, kruns, mcrRules, nOther>>

\* mutant: the secret found by Get is not taken for the keyring; it is
\* generated again
SecretGet_AlwaysGenerate(fault) ==
    /\ kop \in {"rgw", "mds"}
    /\ kpc = "secret_get"
    /\ LET o == GetOutcome(<<"secret", AppOf(kop)>>, fault)
       IN  /\ ktrace' = Append(ktrace, <<"secret_get", o>>)
           /\ IF o = "fault" THEN Finish("err_keyring")
              ELSE kpc' = "gen" /\ UNCHANGED <<kop, kret, kruns>>
    /\ UNCHANGED <<healthVars, cliVars, kobjs, secretKeys, roleRules, bindingRef, clusterAccessRules,
                   keyringCalls, mcrRet, mcrRules, nOther>>

\* createKeyring, lines 93-100 (rgw) and 315-322 (mds): Get the secret
SecretGet(fault) ==
    /\ kop \in {"rgw", "mds"}
    /\ kpc = "secret_get"
    /\ LET o == GetOutcome(<<"secret", AppOf(kop)>>, fault)
       IN  /\ ktrace' = Append(ktrace, <<"secret_get", o>>)
           /\ IF o = "ok" THEN kpc' = AfterKeyring(kop) /\ UNCHANGED <<kop, kret, kruns>>
              ELSE IF o = "notfound" THEN kpc' = "gen" /\ UNCHANGED <<kop, kret, kruns>>
              ELSE Finish("err_keyring")
    /\ UNCHANGED <<healthVars, cliVars, kobjs, secretKeys, roleRules, bindingRef, clusterAccessRules,
                   keyringCalls, mcrRet, mcrRules, nOther>>

\* createKeyring, lines 104-107 and 325-328: generate the keyring
KeyringGen(fault) ==
    /\ kop \in {"rgw", "mds"}
    /\ kpc = "gen"
    /\ keyringCalls' = [keyringCalls EXCEPT ![kop] = @ + 1]
    /\ ktrace' = Append(ktrace, <<"gen", IF fault THEN "fault" ELSE "ok">>)
    /\ IF fault THEN Finish("err_keyring")
       ELSE kpc' = "secret_create" /\ UNCHANGED <<kop, kret, kruns>>
    /\ UNCHANGED <<healthVars, cliVars, kobjs, secretKeys, roleRules, bindingRef, clusterAccessRules,
                   mcrRet, mcrRules, nOther>>

\* mutant: AlreadyExists on the secret is tolerated like on the service
SecretCreate_Tolerant(fault) ==
    /\ kop \in {"rgw", "mds"}
    /\ kpc = "secret_create"
    /\ LET obj == <<"secret", AppOf(kop)>>
           o == CreateOutcome(obj, fault)
       IN  /\ ktrace' = Append(ktrace, <<"secret_create", o>>)
           /\ IF o = "fault"
              THEN /\ Finish("err_keyring")
                   /\ UNCHANGED <<kobjs, secretKeys>>
              ELSE /\ kobjs' = kobjs \cup {obj}
                   /\ secretKeys' = IF o = "ok" THEN [secretKeys EXCEPT ![kop] = {keyringName}] ELSE secretKeys
                   /\ kpc' = AfterKeyring(kop)
                   /\ UNCHANGED <<kop, kret, kruns>>
    /\ UNCHANGED <<healthVars, cliVars, roleRules, bindingRef, clusterAccessRules, keyringCalls,
                   mcrRet, mcrRules, nOther>>

\* createKeyring, lines 110-123 and 331-344: Create the secret; every error
\* is returned, AlreadyExists included
SecretCreate(fault) ==
    /\ kop \in {"rgw", "mds"}
    /\ kpc = "secret_create"
    /\ LET obj == <<"secret", AppOf(kop)>>
           o == CreateOutcome(obj, fault)
       IN  /\ ktrace' = Append(ktrace, <<"secret_create", o>>)
           /\ IF o = "ok"
              THEN /\ kobjs' = kobjs \cup {obj}
                   /\ secretKeys' = [secretKeys EXCEPT ![kop] = {keyringName}]
                   /\ kpc' = AfterKeyring(kop)
                   /\ UNCHANGED <<kop, kret, kruns>>
              ELSE /\ Finish("err_keyring")
                   /\ UNCHANGED <<kobjs, secretKeys>>
    /\ UNCHANGED <<healthVars, cliVars, roleRules, bindingRef, clusterAccessRules, keyringCalls,
                   mcrRet, mcrRules, nOther>>

\* mutant: the error of startService is dropped and Start goes on
ServiceCreate_IgnoreError(fault) ==
    /\ kop \in {"rgw", "api"}
    /\ kpc = "service"
    /\ LET obj == <<"service", AppOf(kop)>>
           o == CreateOutcome(obj, fault)
       IN  /\ ktrace' = Append(ktrace, <<"service", o>>)
           /\ kobjs' = IF o = "ok" THEN kobjs \cup {obj} ELSE kobjs
           /\ kpc' = AfterService(kop)
           /\ UNCHANGED <<kop, kret, kruns>>
    /\ UNCHANGED <<healthVars, cliVars, secretKeys, roleRules, bindingRef, clusterAccessRules, keyringCalls,
                   mcrRet, mcrRules, nOther>>

\* startService, rgw lines 183-215 and api lines 213-245: Create the
\* service, AlreadyExists is fine
ServiceCreate(fault) ==
    /\ kop \in {"rgw", "api"}
    /\ kpc = "service"
    /\ LET obj == <<"service", AppOf(kop)>>
           o == CreateOutcome(obj, fault)
       IN  /\ ktrace' = Append(ktrace, <<"service", o>>)
           /\ kobjs' = IF o = "ok" THEN kobjs \cup {obj} ELSE kobjs
           /\ IF o = "fault" THEN Finish("err_service")
              ELSE kpc' = AfterService(kop) /\ UNCHANGED <<kop, kret, kruns>>
    /\ UNCHANGED <<healthVars, cliVars, secretKeys, roleRules, bindingRef, clusterAccessRules, keyringCalls,
                   mcrRet, mcrRules, nOther>>

\* mutant: an error of makeClusterRole is returned by Start
McrFail_Fatal ==
    /\ mcrRet' = "err"
    /\ Finish("err_rbac")

\* makeClusterRole returns an error: Start logs a warning and goes on to the
\* deployment (lines 101-104), a direct caller gets the error
McrFail ==
    /\ mcrRet' = "err"
    /\ IF kop = "role" THEN Finish("err_rbac")
       ELSE kpc' = "deploy" /\ UNCHANGED <<kop, kret, kruns>>

\* makeClusterRole, lines 123-129: Create the service account
AccountCreate(fault) ==
    /\ kop \in {"api", "role"}
    /\ kpc = "sa"
    /\ LET obj == <<"serviceaccount", ApiName>>
           o == CreateOutcome(obj, fault)
       IN  /\ ktrace' = Append(ktrace, <<"sa", o>>)
           /\ kobjs' = IF o = "ok" THEN kobjs \cup {obj} ELSE kobjs
           /\ IF o = "fault" THEN McrFail
              ELSE kpc' = "role_get" /\ UNCHANGED <<kop, kret, kruns, mcrRet>>
    /\ UNCHANGED <<healthVars, cliVars, secretKeys, roleRules, bindingRef, clusterAccessRules, keyringCalls,
                   mcrRules, nOther>>

\* makeClusterRole, lines 134-137: Get the cluster role
RoleGet(fault) ==
    /\ kop \in {"api", "role"}
    /\ kpc = "role_get"
    /\ LET o == GetOutcome(<<"clusterrole", ApiName>>, fault)
       IN  /\ ktrace' = Append(ktrace, <<"role_get", o>>)
           /\ IF o = "notfound" THEN kpc' = "role_create" /\ UNCHANGED <<kop, kret, kruns, mcrRet>>
              ELSE IF o = "ok" THEN kpc' = "role_update" /\ UNCHANGED <<kop, kret, kruns, mcrRet>>
              ELSE McrFail
    /\ UNCHANGED <<healthVars, cliVars, kobjs, secretKeys, roleRules, bindingRef, clusterAccessRules,
                   keyringCalls, mcrRules, nOther>>

\* makeClusterRole, lines 137-139 and 144-146: Create the role with the
\* current rules; any error is returned
RoleCreate(fault) ==
    /\ kop \in {"api", "role"}
    /\ kpc = "role_create"
    /\ LET obj == <<"clusterrole", ApiName>>
           o == CreateOutcome(obj, fault)
       IN  /\ ktrace' = Append(ktrace, <<"role_create", o>>)
           /\ IF o = "ok"
              THEN /\ kobjs' = kobjs \cup {obj}
                   /\ roleRules' = clusterAccessRules
                   /\ kpc' = "binding"
                   /\ UNCHANGED <<kop, kret, kruns, mcrRet>>
              ELSE /\ McrFail
                   /\ UNCHANGED <<kobjs, roleRules>>
    /\ UNCHANGED <<healthVars, cliVars, secretKeys, bindingRef, clusterAccessRules, keyringCalls,
                   mcrRules, nOther>>

\* mutant: an existing role is left as it is
RoleUpdate_Keep(fault) ==
    /\ kop \in {"api", "role"}
    /\ kpc = "role_update"
    /\ LET o == UpdateOutcome(<<"clusterrole", ApiName>>, fault)
       IN  /\ ktrace' = Append(ktrace, <<"role_update", o>>)
           /\ IF o = "ok"
              THEN /\ UNCHANGED roleRules
                   /\ kpc' = "binding"
                   /\ UNCHANGED <<kop, kret, kruns, mcrRet>>
              ELSE /\ McrFail
                   /\ UNCHANGED roleRules
    /\ UNCHANGED <<healthVars, cliVars, kobjs, secretKeys, bindingRef, clusterAccessRules, keyringCalls,
                   mcrRules, nOther>>

\* makeClusterRole, lines 140-146: the role exists, Update it to the current
\* rules
RoleUpdate(fault) ==
    /\ kop \in {"api", "role"}
    /\ kpc = "role_update"
    /\ LET o == UpdateOutcome(<<"clusterrole", ApiName>>, fault)
       IN  /\ ktrace' = Append(ktrace, <<"role_update", o>>)
           /\ IF o = "ok"
              THEN /\ roleRules' = clusterAccessRules
                   /\ kpc' = "binding"
                   /\ UNCHANGED <<kop, kret, kruns, mcrRet>>
              ELSE /\ McrFail
                   /\ UNCHANGED roleRules
    /\ UNCHANGED <<healthVars, cliVars, kobjs, secretKeys, bindingRef, clusterAccessRules, keyringCalls,
                   mcrRules, nOther>>

\* makeClusterRole, lines 148-156: Create the role binding, AlreadyExists is
\* fine; makeClusterRole returns nil
BindingCreate(fault) ==
    /\ kop \in {"api", "role"}
    /\ kpc = "binding"
    /\ LET obj == <<"clusterrolebinding", ApiName>>
           o == CreateOutcome(obj, fault)
       IN  /\ ktrace' = Append(ktrace, <<"binding", o>>)
           /\ kobjs' = IF o = "ok" THEN kobjs \cup {obj} ELSE kobjs
           /\ bindingRef' = IF o = "ok" THEN RookApiRoleRef ELSE bindingRef
           /\ IF o = "fault"
              THEN McrFail /\ UNCHANGED mcrRules
              ELSE /\ mcrRet' = "nil"
                   /\ mcrRules' = clusterAccessRules
                   /\ IF kop = "role" THEN Finish("nil")
                      ELSE kpc' = "deploy" /\ UNCHANGED <<kop, kret, kruns>>
    /\ UNCHANGED <<healthVars, cliVars, secretKeys, roleRules, clusterAccessRules, keyringCalls, nOther>>

\* mutant: AlreadyExists on the deployment is returned as an error
DeployCreate_Strict(fault) ==
    /\ kop \in Managers
    /\ kpc = "deploy"
    /\ LET obj == <<"deployment", AppOf(kop)>>
           o == CreateOutcome(obj, fault)
       IN  /\ ktrace' = Append(ktrace, <<"deploy", o>>)
           /\ kobjs' = IF o = "ok" THEN kobjs \cup {obj} ELSE kobjs
           /\ Finish(IF o = "ok" THEN "nil" ELSE "err_deployment")
    /\ UNCHANGED <<healthVars, cliVars, secretKeys, roleRules, bindingRef, clusterAccessRules, keyringCalls,
                   mcrRet, mcrRules, nOther>>

\* Start, rgw lines 78-89, mds lines 300-311, api lines 107-118: Create the
\* deployment, AlreadyExists is fine; Start returns
DeployCreate(fault) ==
    /\ kop \in Managers
    /\ kpc = "deploy"
    /\ LET obj == <<"deployment", AppOf(kop)>>
           o == CreateOutcome(obj, fault)
       IN  /\ ktrace' = Append(ktrace, <<"deploy", o>>)
           /\ kobjs' = IF o = "ok" THEN kobjs \cup {obj} ELSE kobjs
           /\ Finish(IF o = "fault" THEN "err_deployment" ELSE "nil")
    /\ UNCHANGED <<healthVars, cliVars, secretKeys, roleRules, bindingRef, clusterAccessRules, keyringCalls,
                   mcrRet, mcrRules, nOther>>

\* another actor (a second operator, an earlier version of it) creates one
\* of the objects
OtherCreate(obj, r) ==
    /\ nOther < MaxOther
    /\ obj \notin kobjs
    /\ nOther' = nOther + 1
    /\ kobjs' = kobjs \cup {obj}
    /\ secretKeys' = IF obj[1] = "secret"
                     THEN [secretKeys EXCEPT ![IF obj[2] = RgwApp THEN "rgw" ELSE "mds"] = {keyringName}]
                     ELSE secretKeys
    /\ roleRules' = IF obj[1] = "clusterrole" THEN r ELSE roleRules
    /\ bindingRef' = IF obj[1] = "clusterrolebinding" THEN RookApiRoleRef ELSE bindingRef
    /\ UNCHANGED <<healthVars, cliVars, kop, kpc, clusterAccessRules, keyringCalls, kret, kruns, ktrace,
                   mcrRet, mcrRules>>

\* the rules the role is to carry change between two calls (an upgrade; the
\* assignment in TestClusterRole)
ChangeRules(r) ==
    /\ kop = "none"
    /\ r # clusterAccessRules
    /\ clusterAccessRules = "rules4"
    /\ clusterAccessRules' = r
    /\ UNCHANGED <<healthVars, cliVars, kop, kpc, kobjs, secretKeys, roleRules, bindingRef, keyringCalls,
                   kret, kruns, ktrace, mcrRet, mcrRules, nOther>>

KubeNext ==
    \/ \E c \in Calls : StartBegin(c)
    \/ \E fault \in BOOLEAN : SecretGet(fault)
    \/ \E fault \in BOOLEAN : KeyringGen(fault)
    \/ \E fault \in BOOLEAN : SecretCreate(fault)
    \/ \E fault \in BOOLEAN : ServiceCreate(fault)
    \/ \E fault \in BOOLEAN : AccountCreate(fault)
    \/ \E fault \in BOOLEAN : RoleGet(fault)
    \/ \E fault \in BOOLEAN : RoleCreate(fault)
    \/ \E fault \in BOOLEAN : RoleUpdate(fault)
    \/ \E fault \in BOOLEAN : BindingCreate(fault)
    \/ \E fault \in BOOLEAN : DeployCreate(fault)
    \/ \E obj \in AllObjs, r \in RuleSets : OtherCreate(obj, r)
    \/ \E r \in RuleSets : ChangeRules(r)

\* the operator process itself makes no use of the flexvolume driver
KubeCliIdle ==
    /\ CliInit
    /\ exeOk
    /\ exePath = <<"opt", "rook">>
    /\ cwd = <<"tmp">>
    /\ agentDir = Dir(exePath)
    /\ agentSock = "listening"

\* the operator at its start, against an empty cluster
KubeStart ==
    /\ KubeInit
    /\ HealthIdle
    /\ KubeCliIdle

KubeSpec == KubeStart /\ [][KubeNext]_vars

(* ------------------------------ helpers -------------------------------- *)
\* no later invocation has touched the streams since i
Latest(i) == \A j \in Invs : j > i => pc[j] = "idle"
\* control has left redirectStdout
Left(i) == pc[i] \in {"returned", "panicked"}
Occurrences(seq, x) == Cardinality({k \in 1..Len(seq) : seq[k] = x})
(* ------------- integration test: checkIfRookClusterIsHealthy ---------- *)
\* utils.RetryLoop: health checks made before the test gives up
RetryLoop == 3

\* clients.IsClusterHealthy(testClient): nil for a healthy cluster, else the
\* error of what it found
IsClusterHealthy ==
    CASE clusterHealth = "ok" -> Nil
      [] clusterHealth = "degraded" -> "errUnhealthy"
      [] clusterHealth = "unreachable" -> "errConn"

\* lines 54-59: entry; err is nil, retryCount := 0
HealthBegin ==
    /\ hpc = "idle"
    /\ retryCount' = 0
    /\ herr' = Nil
    /\ hpc' = "loop"
    /\ UNCHANGED <<cliVars, kubeVars, hlog, hfail, clusterHealth>>

\* mutant: one more round is allowed
LoopGuard_Inclusive == retryCount <= RetryLoop

\* line 60: the condition of the for loop
LoopGuard == retryCount < RetryLoop

\* line 60: the loop goes on or is left
LoopTest ==
    /\ hpc = "loop"
    /\ hpc' = IF LoopGuard THEN "check" ELSE "require"
    /\ UNCHANGED <<cliVars, kubeVars, retryCount, herr, hlog, hfail, clusterHealth>>

\* lines 61-68: one health check; nil returns at once, an error counts a
\* retry
HealthCheck ==
    /\ hpc = "check"
    /\ herr' = IsClusterHealthy
    /\ hlog' = Append(hlog, IsClusterHealthy)
    /\ IF IsClusterHealthy = Nil
       THEN hpc' = "returned" /\ UNCHANGED retryCount
       ELSE hpc' = "sleep" /\ retryCount' = retryCount + 1
    /\ UNCHANGED <<cliVars, kubeVars, hfail, clusterHealth>>

\* line 69: wait RetryInterval seconds
HealthSleep ==
    /\ hpc = "sleep"
    /\ hpc' = "loop"
    /\ UNCHANGED <<cliVars, kubeVars, retryCount, herr, hlog, hfail, clusterHealth>>

\* line 72: require.Nil(s.T(), err) fails the test when err is not nil
HealthRequire ==
    /\ hpc = "require"
    /\ IF herr = Nil
       THEN hpc' = "returned" /\ UNCHANGED hfail
       ELSE hpc' = "failed" /\ hfail' = herr
    /\ UNCHANGED <<cliVars, kubeVars, retryCount, herr, hlog, clusterHealth>>

\* the cluster comes up, degrades or drops off while the test waits
ClusterChange(h) ==
    /\ hpc \notin {"returned", "failed"}
    /\ h # clusterHealth
    /\ clusterHealth' = h
    /\ UNCHANGED <<cliVars, kubeVars, hpc, retryCount, herr, hlog, hfail>>

\* the test's own steps
HealthStep == HealthBegin \/ LoopTest \/ HealthCheck \/ HealthSleep \/ HealthRequire

HealthNext ==
    \/ HealthBegin
    \/ LoopTest
    \/ HealthCheck
    \/ HealthSleep
    \/ HealthRequire
    \/ \E h \in HealthStates : ClusterChange(h)

\* the test before the call, against a cluster in any state
HealthInit ==
    /\ KubeInit
    /\ KubeCliIdle
    /\ hpc = "idle"
    /\ retryCount = 0
    /\ herr = Nil
    /\ hlog = <<>>
    /\ hfail = Nil
    /\ clusterHealth \in HealthStates

\* the test goroutine keeps running: every health check and every wait
\* comes back
HealthSpec == HealthInit /\ [][HealthNext]_vars /\ WF_vars(HealthStep)

\* the call the trace belongs to
LastCall == IF ktrace = <<>> THEN "none" ELSE ktrace[1][2]
InTrace(t, e) == \E k \in 1..Len(t) : t[k] = e
\* no API call of the trace failed with an error other than NotFound /
\* AlreadyExists
NoFault(t) == \A k \in 1..Len(t) : t[k][2] # "fault"
\* the order of the steps of Start
StepRank(step) ==
    CASE step = "call" -> 0
      [] step = "secret_get" -> 1
      [] step = "gen" -> 2
      [] step = "secret_create" -> 3
      [] step = "service" -> 4
      [] step = "sa" -> 5
      [] step = "role_get" -> 6
      [] step = "role_create" -> 7
      [] step = "role_update" -> 7
      [] step = "binding" -> 8
      [] step = "deploy" -> 9
\* the object a step creates
StepObj(step, c) ==
    CASE step = "secret_create" -> <<"secret", AppOf(c)>>
      [] step = "service" -> <<"service", AppOf(c)>>
      [] step = "sa" -> <<"serviceaccount", ApiName>>
      [] step = "role_create" -> <<"clusterrole", ApiName>>
      [] step = "binding" -> <<"clusterrolebinding", ApiName>>
      [] step = "deploy" -> <<"deployment", AppOf(c)>>
      [] OTHER -> <<"none", "none">>
RgwObjs == {<<"secret", RgwApp>>, <<"service", RgwApp>>, <<"deployment", RgwApp>>}

(* ------------------------------- claims -------------------------------- *)

\* C1: once control has left redirectStdout, whether fn returned nil,
\* returned an error or panicked, os.Stdout and os.Stderr are the handles
\* that were recorded on entry (which are the real streams).
C1_StreamsRestored ==
    \A i \in Invs : Left(i) /\ Latest(i) =>
        /\ os_Stdout = oldStdout[i] /\ os_Stderr = oldStderr[i]
        /\ os_Stdout = RealStdout /\ os_Stderr = RealStderr

\* C1 witness: fn wrote something and panicked, and control has unwound
C1_Witness ==
    \E i \in Invs : pc[i] = "panicked" /\ fnWritten[i] # <<>> /\ os_Stdout = RealStdout

\* C1: the same on the two return paths
C1_WitnessReturned ==
    \E i \in Invs : pc[i] = "returned" /\ err[i] \in FnErrs /\ os_Stderr = RealStderr

\* C2: when fn returned nil, the forwarded message is exactly the bytes fn
\* wrote to os.Stdout/os.Stderr, in order; and while fn runs no step adds a
\* byte to the real standard output or standard error.
C2_CapturedExactly ==
    /\ [](\A i \in Invs : logCalls[i] > 0 /\ err[i] = Nil => logged[i].Message = fnWritten[i])
    /\ [][(\E i \in Invs : pc[i] = "fn") => realOut' = realOut /\ realErr' = realErr]_vars

\* C2 witness: fn filled the pipe with two different bytes and returned nil,
\* and the message has been forwarded
C2_Witness ==
    \E i \in Invs :
        /\ pc[i] = "returned" /\ err[i] = Nil
        /\ Len(fnWritten[i]) = PipeCap
        /\ fnWritten[i][1] # fnWritten[i][2]
        /\ logged[i].Message = fnWritten[i]
        /\ realOut = <<>>

\* C3: when fn returned an error e, redirectStdout has closed the write end,
\* drained the pipe, made the log call with the bytes captured so far, and
\* returns e itself.
C3_ErrorStillForwarded ==
    \A i \in Invs : pc[i] = "returned" /\ err[i] \in FnErrs =>
        /\ ret[i] = err[i]
        /\ ~wOpen[i]
        /\ pipeBuf[i] = <<>>
        /\ logCalls[i] = 1
        /\ logged[i].Message = fnWritten[i]
        /\ buf[i] = fnWritten[i]

\* C3 witness: fn wrote a byte and returned e2, which came back
C3_Witness ==
    \E i \in Invs :
        /\ pc[i] = "returned" /\ err[i] = "e2" /\ ret[i] = "e2"
        /\ fnWritten[i] # <<>> /\ logged[i].Message = fnWritten[i]

\* C4: whatever client.Call produced (success, remote error, peer gone
\* before or during the call), log returns without panicking and
\* redirectStdout returns what fn returned.
C4_LogOutcomeIgnored ==
    \A i \in Invs : rpcRes[i] # "none" =>
        /\ ~panicking[i]
        /\ pc[i] \in {"wait", "return", "defer", "returned"}
        /\ pc[i] = "wait" => ENABLED LogReturn(i)
        /\ pc[i] \in {"defer", "returned"} => ret[i] = err[i]

\* C4 witness: the peer went away during the call and fn's error came back
C4_Witness ==
    \E i \in Invs : pc[i] = "returned" /\ rpcRes[i] = "EOF" /\ err[i] = "e1" /\ ret[i] = "e1"

\* C4: the other outcomes of the call
C4_WitnessRemoteErr ==
    \E i \in Invs : pc[i] = "returned" /\ rpcRes[i] = "remoteErr" /\ ret[i] = Nil
C4_WitnessShutdown ==
    \E i \in Invs : pc[i] = "returned" /\ rpcRes[i] = "ErrShutdown" /\ ret[i] = "e2"

\* C5 (as stated): on every exit from fn the handles are restored before
\* the write end is closed, before the drain and before the log call.
C5_RestoreFirst ==
    \A i \in Invs : pc[i] \in {"copy", "log", "wait", "return"} =>
        os_Stdout = oldStdout[i] /\ os_Stderr = oldStderr[i]

\* C5 (amended): the restoration is the last step of redirectStdout, not the
\* first: when fn returned, the streams still are the pipe's write end while
\* the write end is closed, the pipe drained and the log call made, and they
\* are restored after the log call, before control goes back to the caller.
C5_RestoreLast ==
    \A i \in Invs :
        /\ pc[i] \in {"close", "copy", "log", "wait", "return"} =>
              os_Stdout = w[i] /\ os_Stderr = w[i]
        /\ pc[i] = "returned" =>
              ~wOpen[i] /\ pipeBuf[i] = <<>> /\ logCalls[i] = 1
        /\ pc[i] = "returned" /\ Latest(i) =>
              os_Stdout = oldStdout[i] /\ os_Stderr = oldStderr[i]

\* C5 witness: the log call is in flight and the streams are still the
\* (closed) write end of the pipe
C5_Witness ==
    \E i \in Invs :
        /\ pc[i] = "wait" /\ logCalls[i] = 1 /\ ~wOpen[i]
        /\ os_Stdout = PipeW(i) /\ os_Stderr = PipeW(i)

\* C6 (as stated): whatever number of bytes fn writes, the writer inside fn
\* is never stuck on a full pipe: a Write that fn is inside of can complete,
\* or the pipe is being drained.
C6_WriterNeverStuck ==
    \A i \in Invs : pc[i] = "fn" /\ pending[i] # NoPending =>
        ENABLED FnCompleteWrite(i) \/ ENABLED Drain(i)

\* C7 (as stated): when fn panicked, the pipe is drained and the log call
\* made with the bytes captured so far before the panic leaves
\* redirectStdout.
C7_PanicStillLogs ==
    \A i \in Invs : pc[i] = "panicked" =>
        logCalls[i] = 1 /\ logged[i].Message = fnWritten[i]

\* C7 (amended): when fn panics, redirectStdout does not close the write end,
\* does not drain the pipe and makes no log call: the deferred restoration
\* is the only thing that runs before the panic goes on to the caller, and
\* the captured bytes stay in the pipe.
C7_PanicSkipsLog ==
    \A i \in Invs : panicking[i] =>
        /\ pc[i] \in {"defer", "panicked"}
        /\ logCalls[i] = 0
        /\ buf[i] = <<>>
        /\ pipeBuf[i] = fnWritten[i]
        /\ w[i] # NilFile => wOpen[i]
        /\ pc[i] = "panicked" /\ Latest(i) => os_Stdout = oldStdout[i] /\ os_Stderr = oldStderr[i]

\* C7 witness: fn wrote bytes and panicked; the panic has left
\* redirectStdout and nothing was forwarded
C7_Witness ==
    \E i \in Invs :
        /\ pc[i] = "panicked" /\ Len(fnWritten[i]) = PipeCap
        /\ logCalls[i] = 0 /\ agentLog = <<>> /\ pipeBuf[i] = fnWritten[i]

\* C8: when redirectStdout has returned, the real streams are back and the
\* log call has been made; so a result the caller writes to os.Stdout after
\* the return reaches the real standard output, never the pipe, and never
\* before the log call.
C8_ResultAfterRestoreAndLog ==
    \A i \in Invs :
        /\ pc[i] = "returned" /\ Latest(i) =>
              os_Stdout = RealStdout /\ os_Stderr = RealStderr
        /\ pc[i] = "returned" => logCalls[i] = 1
        /\ resultOut[i] => logCalls[i] = 1
        /\ Occurrences(pipeBuf[i], "R") = 0 /\ Occurrences(buf[i], "R") = 0
        /\ Occurrences(realOut, "R") = Cardinality({j \in Invs : resultOut[j]})

\* C8 witness: the caller has written its result after a capture that
\* forwarded some text
C8_Witness ==
    \E i \in Invs :
        /\ resultOut[i] /\ fnWritten[i] # <<>>
        /\ realOut[Len(realOut)] = "R" /\ logCalls[i] = 1

\* C9: an invocation in which fn returned makes exactly one log call, never
\* a second one, also when fn wrote nothing (the message is then empty).
C9_ExactlyOneLog ==
    \A i \in Invs :
        /\ logCalls[i] <= 1
        /\ pc[i] \in {"wait", "return", "returned"} => logCalls[i] = 1
        /\ pc[i] = "returned" /\ fnWritten[i] = <<>> =>
              logCalls[i] = 1 /\ logged[i] = LogMessage(i, <<>>, FALSE)
        /\ Len(agentLog) <= Cardinality({j \in Invs : logCalls[j] = 1})

\* C9 witness: fn wrote nothing, returned, and the empty message was
\* delivered to the agent
C9_Witness ==
    \E i \in Invs :
        /\ pc[i] = "returned" /\ nWrites[i] = 0 /\ logCalls[i] = 1
        /\ agentLog = <<[Message |-> <<>>, IsError |-> FALSE]>>

\* C10: when the socket is missing or refuses the connection, getRPCClient
\* has dialled once, returns a nil client and an error carrying the cause,
\* and leaves no connection open.
C10_DialFailure ==
    exeOk /\ mainpc # "start" /\ DialResult(SocketFile(exePath)) # "ok" =>
        /\ mainpc = "noclient"
        /\ Len(dialed) = 1
        /\ client = "nil"
        /\ gerr.kind = "connect"
        /\ gerr.cause = DialResult(SocketFile(exePath))
        /\ gerr.cause \in {"ENOENT", "ECONNREFUSED"}
        /\ openConns = 0
        /\ peer = "down"

\* C10 witness: the socket file is there but nobody accepts
C10_Witness ==
    mainpc = "noclient" /\ gerr.kind = "connect" /\ gerr.cause = "ECONNREFUSED"

\* C10: the socket file is missing
C10_WitnessMissing ==
    mainpc = "noclient" /\ gerr.kind = "connect" /\ gerr.cause = "ENOENT" /\ agentSock = "absent"

\* C11: the address getRPCClient dials is the directory of the executable
\* joined with the socket name, whatever the working directory: it is
\* computed from the executable's path alone.
C11_AddressFromExecutable ==
    \A k \in 1..Len(dialed) :
        dialed[k] = SubSeq(exePath, 1, Len(exePath) - 1) \o <<".rook.sock">>

\* C11 witness: a dial made from a working directory that is not the
\* directory of the executable
C11_Witness ==
    /\ Len(dialed) = 1
    /\ exePath = <<"usr", "libexec", "rook">>
    /\ cwd = <<"tmp">>
    /\ dialed[1] = <<"usr", "libexec", ".rook.sock">>

\* C11: the same executable started from the other working directory
C11_WitnessOtherDir ==
    /\ Len(dialed) = 1
    /\ exePath = <<"usr", "libexec", "rook">>
    /\ cwd = <<"usr", "libexec">>
    /\ dialed[1] = <<"usr", "libexec", ".rook.sock">>

\* C12: when the executable's path cannot be resolved, getRPCClient returns
\* an error and a nil client, computes no address and dials nothing.
C12_NoExecutableNoDial ==
    ~exeOk /\ mainpc # "start" =>
        /\ mainpc = "noclient"
        /\ client = "nil"
        /\ gerr.kind = "executable"
        /\ gerr.addr = <<>>
        /\ dialed = <<>>
        /\ openConns = 0
        /\ peer = "down"

\* C12 witness: os.Executable failed although the agent is listening next to
\* the executable
C12_Witness ==
    /\ ~exeOk /\ mainpc = "noclient" /\ gerr.kind = "executable"
    /\ agentSock = "listening" /\ agentDir = Dir(exePath)

\* C13: the log call is synchronous and has no timeout: redirectStdout gets
\* past the call only with a response or a connection error, it stays in
\* the call for as long as the agent has not answered, and once the agent
\* answers or disconnects it returns.
C13_LogCallBlocks ==
    /\ [](\A i \in Invs : pc[i] \in {"return", "returned"} => rpcRes[i] # "none")
    /\ [][\A i \in Invs : pc[i] = "wait" /\ rpcRes[i] = "none" => pc'[i] = "wait"]_vars
    /\ \A i \in Invs : (pc[i] = "wait") ~> (pc[i] = "returned")

\* C13 witness: the call is in flight, unanswered, on a live connection
C13_Witness ==
    \E i \in Invs :
        /\ pc[i] = "wait" /\ rpcRes[i] = "none" /\ peer = "up"
        /\ inflight.from = i /\ ~ENABLED LogReturn(i)

\* C13: the call came back with the agent's answer and redirectStdout returned
C13_WitnessReturned ==
    \E i \in Invs : pc[i] = "returned" /\ rpcRes[i] = "ok" /\ Len(agentLog) = 1

\* C14: rgw Start is idempotent: once a Start has returned nil, a further
\* Start changes neither the rook-ceph-rgw secret, service and deployment
\* nor the number of keyring generations, the secret holds the one keyring
\* entry, and the Start returns nil (no API call failing).
C14_RgwStartIdempotent ==
    /\ [](kret["rgw"] = "nil" =>
            RgwObjs \subseteq kobjs /\ secretKeys["rgw"] = {"keyring"})
    /\ [][kop = "rgw" /\ kret["rgw"] = "nil" =>
            /\ kobjs' \cap RgwObjs = kobjs \cap RgwObjs
            /\ secretKeys'["rgw"] = secretKeys["rgw"]
            /\ keyringCalls'["rgw"] = keyringCalls["rgw"]
            /\ (kop' = "none" /\ NoFault(ktrace') => kret'["rgw"] = "nil")]_vars

\* C14 witness: a second Start after a first one that created everything
C14_Witness ==
    /\ kop = "none" /\ kruns = 2 /\ nOther = 0 /\ kret["rgw"] = "nil"
    /\ keyringCalls["rgw"] = 1
    /\ ktrace = << <<"call", "rgw">>, <<"secret_get", "ok">>, <<"service", "exists">>,
                   <<"deploy", "exists">> >>

\* C15: api Start is idempotent: once a Start has returned nil, a further
\* Start leaves the rook-api service and deployment as they are and
\* returns nil, every AlreadyExists being tolerated (no API call failing).
C15_ApiStartIdempotent ==
    /\ [](kret["api"] = "nil" =>
            {<<"service", ApiName>>, <<"deployment", ApiName>>} \subseteq kobjs)
    /\ [][kop = "api" /\ kret["api"] = "nil" =>
            /\ kobjs' \cap {<<"service", ApiName>>, <<"deployment", ApiName>>}
                 = kobjs \cap {<<"service", ApiName>>, <<"deployment", ApiName>>}
            /\ (kop' = "none" /\ NoFault(ktrace') => kret'["api"] = "nil")]_vars

\* C15 witness: a second Start that met AlreadyExists on the service, the
\* service account, the role binding and the deployment
C15_Witness ==
    /\ kop = "none" /\ kruns = 2 /\ kret["api"] = "nil"
    /\ ktrace = << <<"call", "api">>, <<"service", "exists">>, <<"sa", "exists">>,
                   <<"role_get", "ok">>, <<"role_update", "ok">>, <<"binding", "exists">>,
                   <<"deploy", "exists">> >>

\* C16: when makeClusterRole has returned nil, the stored rook-api role
\* carries clusterAccessRules as of that call, created when it was absent
\* and updated when it existed, and the service account and the role
\* binding (RoleRef ClusterRole rook-api) exist.
C16_ClusterRoleFollowsRules ==
    mcrRet = "nil" =>
        /\ <<"clusterrole", ApiName>> \in kobjs
        /\ roleRules = mcrRules
        /\ kop \in {"api", "role"} => roleRules = clusterAccessRules
        /\ InTrace(ktrace, <<"role_get", "notfound">>) => InTrace(ktrace, <<"role_create", "ok">>)
        /\ InTrace(ktrace, <<"role_get", "ok">>) => InTrace(ktrace, <<"role_update", "ok">>)
        /\ <<"serviceaccount", ApiName>> \in kobjs
        /\ <<"clusterrolebinding", ApiName>> \in kobjs
        /\ bindingRef.Kind = "ClusterRole" /\ bindingRef.Name = "rook-api"

\* C16 witness: the rules changed and a second makeClusterRole replaced the
\* rules of the existing role
C16_Witness ==
    /\ kop = "none" /\ LastCall = "role" /\ kret["role"] = "nil" /\ mcrRet = "nil"
    /\ nOther = 0 /\ kruns = 2
    /\ InTrace(ktrace, <<"role_update", "ok">>)
    /\ clusterAccessRules = "rules1" /\ roleRules = "rules1"

\* invocation b substituted the streams while invocation a held them: its
\* backup is a's write end
Inside(b, a) == a # b /\ pc[a] # "idle" /\ pc[b] # "idle" /\ oldStdout[b] = w[a] /\ oldStderr[b] = w[a]

\* C17: redirectStdout keeps no discipline over the process-global streams.
\* When B substituted inside A and restores after A has returned, the
\* streams are A's write end from then on, not the original handles; when B
\* restores first and A after it (nested), and when the invocations follow
\* one another, the original handles are back once both have returned.
C17_OverlapLeavesPipe ==
    /\ []((\A i \in Scopes : pc[i] = "returned" /\ oldStdout[i] = RealStdout /\ oldStderr[i] = RealStderr)
            => os_Stdout = RealStdout /\ os_Stderr = RealStderr)
    /\ [][\A a, b \in Scopes :
            /\ (Inside(b, a) /\ pc[a] = "returned" /\ pc[b] = "defer" /\ pc'[b] = "returned")
                 => /\ os_Stdout' = w[a] /\ os_Stderr' = w[a]
                    /\ os_Stdout' # RealStdout /\ os_Stderr' # RealStderr
            /\ (Inside(b, a) /\ pc[b] = "returned" /\ pc[a] = "defer" /\ pc'[a] = "returned")
                 => os_Stdout' = RealStdout /\ os_Stderr' = RealStderr]_vars

\* C17 witness: A substitutes, B substitutes, A restores, B restores
C17_Witness ==
    /\ pc[1] = "returned" /\ pc[2] = "returned"
    /\ oldStdout[1] = RealStdout /\ oldStdout[2] = PipeW(1)
    /\ os_Stdout = PipeW(1) /\ os_Stderr = PipeW(1)

\* C17: properly nested, B inside A
C17_WitnessNested ==
    /\ pc[1] = "returned" /\ pc[2] = "returned"
    /\ oldStdout[1] = RealStdout /\ oldStdout[2] = PipeW(1)
    /\ os_Stdout = RealStdout /\ os_Stderr = RealStderr

\* C17: one after the other
C17_WitnessSequential ==
    /\ pc[1] = "returned" /\ pc[2] = "returned"
    /\ oldStdout[1] = RealStdout /\ oldStdout[2] = RealStdout
    /\ w[1] = PipeW(1) /\ w[2] = PipeW(2)
    /\ os_Stdout = RealStdout /\ os_Stderr = RealStderr

\* C18: createKeyring does not tolerate AlreadyExists: when the secret
\* appears between the Get that said NotFound and the Create, a keyring has
\* been generated all the same and Start returns an error; AlreadyExists on
\* the service or the deployment is tolerated and Start returns nil.
C18_KeyringRaceNotTolerated ==
    kop = "none" /\ LastCall \in Managers =>
        /\ InTrace(ktrace, <<"secret_create", "exists">>) =>
              /\ InTrace(ktrace, <<"secret_get", "notfound">>)
              /\ InTrace(ktrace, <<"gen", "ok">>)
              /\ keyringCalls[LastCall] >= 1
              /\ kret[LastCall] = "err_keyring"
              /\ <<"secret", AppOf(LastCall)>> \in kobjs
        /\ NoFault(ktrace) /\ ~InTrace(ktrace, <<"secret_create", "exists">>) =>
              kret[LastCall] = "nil"

\* C18 witness: the rgw secret was created by another actor between Get and
\* Create
C18_Witness ==
    /\ kop = "none" /\ nOther = 1 /\ kret["rgw"] = "err_keyring"
    /\ ktrace = << <<"call", "rgw">>, <<"secret_get", "notfound">>, <<"gen", "ok">>,
                   <<"secret_create", "exists">> >>

\* C18: the same for mds
C18_WitnessMds ==
    /\ kop = "none" /\ nOther = 1 /\ kret["mds"] = "err_keyring"
    /\ ktrace = << <<"call", "mds">>, <<"secret_get", "notfound">>, <<"gen", "ok">>,
                   <<"secret_create", "exists">> >>

\* C18: the race on the service and on the deployment, tolerated
C18_WitnessServiceRace ==
    /\ kop = "none" /\ nOther = 1 /\ kruns = 1 /\ kret["rgw"] = "nil"
    /\ InTrace(ktrace, <<"service", "exists">>)
C18_WitnessDeployRace ==
    /\ kop = "none" /\ nOther = 1 /\ kruns = 1 /\ kret["rgw"] = "nil"
    /\ InTrace(ktrace, <<"deploy", "exists">>)

\* C19: rgw Start goes keyring secret, service, deployment, in that order,
\* and stops at the first step failing with an error other than
\* AlreadyExists: that step is its last, Start returns an error, it has
\* created nothing of a later step, and what it created before is in place.
C19_RgwStartOrder ==
    LastCall = "rgw" =>
        /\ \A k \in 1..Len(ktrace) - 1 : StepRank(ktrace[k][1]) < StepRank(ktrace[k + 1][1])
        /\ \A k \in 1..Len(ktrace) : ktrace[k][2] = "fault" =>
              /\ k = Len(ktrace)
              /\ kop = "none"
              /\ kret["rgw"] \in {"err_keyring", "err_service", "err_deployment"}
              /\ kret["rgw"] = (IF ktrace[k][1] = "service" THEN "err_service"
                                ELSE IF ktrace[k][1] = "deploy" THEN "err_deployment"
                                ELSE "err_keyring")
        /\ \A k \in 1..Len(ktrace) : ktrace[k][2] = "ok" /\ StepObj(ktrace[k][1], "rgw")[1] # "none" =>
              StepObj(ktrace[k][1], "rgw") \in kobjs

\* C19 witness: the keyring secret was stored, the service failed, and no
\* deployment was created
C19_Witness ==
    /\ kop = "none" /\ nOther = 0 /\ kruns = 1 /\ kret["rgw"] = "err_service"
    /\ ktrace = << <<"call", "rgw">>, <<"secret_get", "notfound">>, <<"gen", "ok">>,
                   <<"secret_create", "ok">>, <<"service", "fault">> >>
    /\ kobjs = {<<"secret", RgwApp>>}

\* C20: in api Start a failure of makeClusterRole is not fatal: the
\* deployment is still attempted and Start returns nil when that works or
\* the deployment exists; Start returns an error exactly when the service or
\* the deployment fails with an error other than AlreadyExists, and after a
\* service failure it has made no other API call.
C20_RbacFailureNotFatal ==
    LastCall = "api" =>
        /\ mcrRet = "err" =>
              /\ kpc \in {"deploy", "idle"}
              /\ kop = "none" => InTrace(ktrace, <<"deploy", "ok">>) \/ InTrace(ktrace, <<"deploy", "exists">>)
                                   \/ InTrace(ktrace, <<"deploy", "fault">>)
        /\ kop = "none" =>
              /\ kret["api"] = (IF InTrace(ktrace, <<"service", "fault">>) THEN "err_service"
                                ELSE IF InTrace(ktrace, <<"deploy", "fault">>) THEN "err_deployment"
                                ELSE "nil")
        /\ InTrace(ktrace, <<"service", "fault">>) =>
              ktrace = << <<"call", "api">>, <<"service", "fault">> >>

\* C20 witness: the role binding could not be created, the deployment was,
\* and Start returned nil
C20_Witness ==
    /\ kop = "none" /\ LastCall = "api" /\ mcrRet = "err" /\ kret["api"] = "nil"
    /\ InTrace(ktrace, <<"binding", "fault">>) /\ InTrace(ktrace, <<"deploy", "ok">>)

\* C20: the service failed and nothing else was touched
C20_WitnessServiceFailed ==
    /\ kop = "none" /\ LastCall = "api" /\ kret["api"] = "err_service" /\ kobjs = {} /\ kruns = 1

\* C21: the LogMessage redirectStdout forwards has IsError = false whatever
\* fn returned: in the call made, in the request on its way and in what the
\* agent received, for a nil result of fn and for an error alike.
C21_SeverityNeverError ==
    /\ \A i \in Invs : logCalls[i] >= 1 =>
          /\ logged[i].IsError = FALSE
          /\ logged[i] = LogMessage(i, buf[i], FALSE)
    /\ inflight # NoRequest => inflight.IsError = FALSE
    /\ \A k \in 1..Len(agentLog) : agentLog[k].IsError = FALSE
    /\ Len(agentLog) <= Cardinality({j \in Invs : logCalls[j] >= 1})

\* C21 witness: fn wrote, returned an error, and the agent received the
\* text with the flag false
C21_Witness ==
    \E i \in Invs :
        /\ pc[i] = "returned" /\ err[i] \in FnErrs /\ ret[i] = err[i]
        /\ logCalls[i] = 1 /\ logged[i].Message # <<>> /\ logged[i].IsError = FALSE
        /\ agentLog = <<[Message |-> logged[i].Message, IsError |-> FALSE]>>

\* C21: the same after fn returned nil
C21_WitnessNil ==
    \E i \in Invs :
        /\ pc[i] = "returned" /\ err[i] = Nil
        /\ logCalls[i] = 1 /\ logged[i].Message # <<>> /\ logged[i].IsError = FALSE
        /\ agentLog = <<[Message |-> logged[i].Message, IsError |-> FALSE]>>

\* C22: checkIfRookClusterIsHealthy makes at most RetryLoop health checks
\* and always ends: a check that succeeds is the last one and the function
\* returns without failing the test; the test is failed only after
\* RetryLoop failed checks in a row, with the error of the last of them.
C22_HealthCheckBounded ==
    /\ [](/\ Len(hlog) <= RetryLoop
          /\ retryCount <= RetryLoop
          /\ \A k \in 1..Len(hlog) - 1 : hlog[k] # Nil
          /\ (hlog # <<>> /\ hlog[Len(hlog)] = Nil) => hpc = "returned" /\ hfail = Nil
          /\ hpc = "returned" => hlog # <<>> /\ hlog[Len(hlog)] = Nil
          /\ hpc = "failed" =>
                /\ Len(hlog) = RetryLoop
                /\ \A k \in 1..Len(hlog) : hlog[k] # Nil
                /\ hfail = hlog[RetryLoop])
    /\ [][(hpc = "returned" \/ hpc = "failed") => (hlog' = hlog /\ hpc' = hpc /\ hfail' = hfail)]_vars
    /\ (hpc = "loop") ~> (hpc \in {"returned", "failed"})

\* C22 witness: RetryLoop checks failed, with different errors, and the
\* test failed with the last one
C22_Witness ==
    /\ hpc = "failed" /\ Len(hlog) = RetryLoop
    /\ hlog[1] = "errConn" /\ hlog[RetryLoop] = "errUnhealthy"
    /\ hfail = "errUnhealthy"

\* C22: the cluster became healthy before the retries ran out
C22_WitnessHealthy ==
    /\ hpc = "returned" /\ hlog = <<"errConn", Nil>> /\ retryCount = 1 /\ hfail = Nil

\* C22: the very last check allowed succeeded
C22_WitnessLastChance ==
    /\ hpc = "returned" /\ Len(hlog) = RetryLoop /\ hlog[RetryLoop] = Nil
====
